---- MODULE Spec2Model ----
(***************************************************************************)
(* A model of sreg, a bit-banged driver for a daisy chain of 74HC595       *)
(* shift registers (src/src/sreg.cpp).  The driver keeps an in-memory      *)
(* mirror of the chain (shcp_reg_) and pushes it over three pins: data     *)
(* (ds_), shift clock (shcp_) and latch clock (stcp_).                     *)
(*                                                                         *)
(* The program state is the five statics of sreg.cpp.  The environment is  *)
(* the platform layer (pinMode, digitalWrite) and the chain wired to the   *)
(* pins: pin levels, the chain's shift stage and its parallel outputs.     *)
(* Every public function is one action; the calls it makes are part of it. *)
(***************************************************************************)
EXTENDS Integers, Sequences, FiniteSets, TLC

(***************************************************************************)
(* The C type int: two's complement, IntBits wide.                         *)
(***************************************************************************)
IntBits == 32

MaxInt == 2147483647

MinInt == (-MaxInt) - 1

BitIdx == 0..(IntBits - 1)

\* The bitwise operators on one hexadecimal digit pair, tabulated.
Digits == 0..15

RECURSIVE DigitOp(_, _, _, _)
DigitOp(x, y, n, or) ==
    IF n = 0 THEN 0
    ELSE (IF or THEN (IF (x % 2) + (y % 2) > 0 THEN 1 ELSE 0)
                ELSE (x % 2) * (y % 2))
             + 2 * DigitOp(x \div 2, y \div 2, n - 1, or)

DigitAnd == [x \in Digits, y \in Digits |-> DigitOp(x, y, 4, FALSE)]

DigitOr == [x \in Digits, y \in Digits |-> DigitOp(x, y, 4, TRUE)]

\* a & b, digit by digit from the low end: x \div 16 is the arithmetic
\* shift right, and the operands end in 0 (all zeros) or -1 (all ones).
RECURSIVE BitAnd(_, _)
BitAnd(a, b) ==
    IF a = 0 \/ b = 0 THEN 0
    ELSE IF a = -1 THEN b
    ELSE IF b = -1 THEN a
    ELSE DigitAnd[a % 16, b % 16] + 16 * BitAnd(a \div 16, b \div 16)

\* a | b
RECURSIVE BitOr(_, _)
BitOr(a, b) ==
    IF a = 0 THEN b
    ELSE IF b = 0 THEN a
    ELSE IF a = -1 \/ b = -1 THEN -1
    ELSE DigitOr[a % 16, b % 16] + 16 * BitOr(a \div 16, b \div 16)

\* ~a
BitNot(a) == IF a >= 0 THEN (-a) - 1 ELSE -(a + 1)

\* !a
LogNot(a) == IF a = 0 THEN 1 ELSE 0

\* a << n for n in BitIdx: the low IntBits - 1 - n bits move up by n, bit
\* IntBits - 1 - n becomes the sign, the bits above it are lost
\* (1 << 31 is MinInt).
ShiftIn(a, n) ==
    LET keep == IntBits - 1 - n
    IN  IF n = 0 THEN a
        ELSE (IF keep = 0 THEN 0 ELSE (a % (2^keep)) * (2^n))
                 + (IF (a \div (2^keep)) % 2 = 1 THEN MinInt ELSE 0)

\* What a build makes of a shift whose count is not in BitIdx, which the
\* language leaves undefined: the count taken modulo the width (x86 shl, bt)
\* or every bit shifted out (ARM lsl by register).
ShiftOverflow == {"wrap", "zero"}

\* a << n
ShiftLeft(a, n, ub) ==
    IF n \in BitIdx THEN ShiftIn(a, n)
    ELSE IF ub = "wrap" THEN ShiftIn(a, n % IntBits)
    ELSE 0

(***************************************************************************)
(* The memory-only functions, as functions of the register value.          *)
(***************************************************************************)

\* A faulty sreg_test_bit: the masked value returned without the !!.
sreg_test_bit_raw(reg, pin, ub) == BitAnd(reg, ShiftLeft(1, pin, ub))

\* return !!(shcp_reg_ & 1 << pin);
sreg_test_bit(reg, pin, ub) ==
    LogNot(LogNot(BitAnd(reg, ShiftLeft(1, pin, ub))))

\* A faulty sreg_test_all_bits: the result narrowed to one byte.
sreg_test_all_bits_byte(reg) == reg % 256

\* return shcp_reg_;
sreg_test_all_bits(reg) == reg

\* A faulty sreg_write_bit: bit_value shifted without the !! before it.
sreg_write_bit_raw(reg, pin, bit_value, ub) ==
    BitOr(BitAnd(reg, BitNot(ShiftLeft(1, pin, ub))),
          ShiftLeft(bit_value, pin, ub))

\* shcp_reg_ = (shcp_reg_ & ~(1 << pin)) | (!!bit_value << pin);
sreg_write_bit(reg, pin, bit_value, ub) ==
    BitOr(BitAnd(reg, BitNot(ShiftLeft(1, pin, ub))),
          ShiftLeft(LogNot(LogNot(bit_value)), pin, ub))

\* A faulty sreg_invert_bit: the bit read is written back as it is.
sreg_invert_bit_same(reg, pin, ub) ==
    sreg_write_bit(reg, pin, sreg_test_bit(reg, pin, ub), ub)

\* A faulty sreg_invert_bit: ~ in place of !.
sreg_invert_bit_compl(reg, pin, ub) ==
    sreg_write_bit(reg, pin, BitNot(sreg_test_bit(reg, pin, ub)), ub)

\* sreg_write_bit(pin, !sreg_test_bit(pin));
sreg_invert_bit(reg, pin, ub) ==
    sreg_write_bit(reg, pin, LogNot(sreg_test_bit(reg, pin, ub)), ub)

(***************************************************************************)
(* The platform layer and the chain behind it.                             *)
(***************************************************************************)

\* The pin triples <<data, shift clock, latch clock>> a caller passes to
\* sreg_init, and the one the chain is wired to.
PinConfigs == {<<2, 3, 4>>}

Wired == [ds |-> 2, shcp |-> 3, stcp |-> 4]

PinIds == UNION {{c[1], c[2], c[3]} : c \in PinConfigs}

\* Chain lengths whose 8 * L bits fit the int that mirrors them.
MaxChain == IntBits \div 8

ChainLengths == 1..MaxChain

\* pinMode(pin, OUTPUT)
pinMode(io, pin) ==
    [io EXCEPT !.trace = Append(@, <<"pinMode", pin, "OUTPUT">>)]

\* digitalWrite(pin, val): the pin takes the level; a chain wired to it
\* shifts the data level in on a rising shift clock and copies the shift
\* stage to the outputs on a rising latch clock.
digitalWrite(io, pin, val) ==
    LET v    == IF val = 0 THEN 0 ELSE 1
        rise == io.level[pin] = 0 /\ v = 1
    IN  [level |-> [io.level EXCEPT ![pin] = v],
         sr    |-> IF rise /\ pin = Wired.shcp
                       THEN <<io.level[Wired.ds]>>
                                \o SubSeq(io.sr, 1, Len(io.sr) - 1)
                       ELSE io.sr,
         q     |-> IF rise /\ pin = Wired.stcp THEN io.sr ELSE io.q,
         trace |-> Append(io.trace, <<"digitalWrite", pin, v>>)]

(***************************************************************************)
(* The functions that drive the pins.  c is the configuration             *)
(* [ds, shcp, stcp, count] they read from the statics.                     *)
(***************************************************************************)

\* A faulty sreg_latch_low: the latch clock is left as it is.
sreg_latch_low_nolatch(io, c) ==
    digitalWrite(digitalWrite(io, c.ds, 0), c.shcp, 0)

\* sreg_latch_low: latch, data and clock low.
sreg_latch_low(io, c) ==
    digitalWrite(digitalWrite(digitalWrite(io, c.stcp, 0), c.ds, 0), c.shcp, 0)

\* A faulty loop body: the data pin is driven after the rising clock edge.
shift_bit_late(io, c, reg, i, ub) ==
    LET a == digitalWrite(io, c.shcp, 0)
        b == digitalWrite(a, c.shcp, 1)
        d == digitalWrite(b, c.ds, sreg_test_bit(reg, i, ub))
    IN  digitalWrite(d, c.ds, 0)

\* One iteration of the loop of sreg_latch_high.
shift_bit(io, c, reg, i, ub) ==
    LET a == digitalWrite(io, c.shcp, 0)
        b == digitalWrite(a, c.ds, sreg_test_bit(reg, i, ub))
        d == digitalWrite(b, c.shcp, 1)
    IN  digitalWrite(d, c.ds, 0)

\* A faulty loop start: eight bits for each IC.
loop_start_bytes(count, ub) == 8 * count - 1

\* The first value of i: (4 << sreg_count_) - 1.
loop_start(count, ub) == ShiftLeft(4, count, ub) - 1

\* A faulty loop: the bits go out least significant first.
RECURSIVE shift_loop_up(_, _, _, _)
shift_loop_up(st, c, reg, ub) ==
    IF st.i >= 0
        THEN shift_loop_up(
                 [io |-> shift_bit(st.io, c, reg,
                                   loop_start(c.count, ub) - st.i, ub),
                  i  |-> st.i - 1], c, reg, ub)
        ELSE st.io

\* for (int i = ...; i >= 0; i--) { ... }, from the loop state st = [io, i].
RECURSIVE shift_loop(_, _, _, _)
shift_loop(st, c, reg, ub) ==
    IF st.i >= 0
        THEN shift_loop([io |-> shift_bit(st.io, c, reg, st.i, ub),
                         i  |-> st.i - 1], c, reg, ub)
        ELSE st.io

\* A faulty sreg_latch_high: latch high before the shift loop.
sreg_latch_high_first(io, c, reg, ub) ==
    shift_loop([io |-> digitalWrite(io, c.stcp, 1),
                i  |-> loop_start(c.count, ub)], c, reg, ub)

\* sreg_latch_high: the shift loop, then latch high.
sreg_latch_high(io, c, reg, ub) ==
    digitalWrite(shift_loop([io |-> io, i |-> loop_start(c.count, ub)],
                            c, reg, ub),
                 c.stcp, 1)

\* A faulty sreg_write_bits: latch high before latch low.
sreg_write_bits_swapped(io, c, bits, ub) ==
    sreg_latch_low(sreg_latch_high(io, c, bits, ub), c)

\* sreg_write_bits, after shcp_reg_ = bits: latch low, latch high.
sreg_write_bits(io, c, bits, ub) ==
    sreg_latch_high(sreg_latch_low(io, c), c, bits, ub)

\* A faulty sreg_init: the pins are made outputs after the push.
sreg_init_late(io, c, init_value, ub) ==
    pinMode(pinMode(pinMode(sreg_write_bits(io, c, init_value, ub), c.ds),
                    c.shcp), c.stcp)

\* sreg_init, after the statics are set: three pinMode calls and
\* sreg_write_bits(init_value).
sreg_init(io, c, init_value, ub) ==
    sreg_write_bits(pinMode(pinMode(pinMode(io, c.ds), c.shcp), c.stcp),
                    c, init_value, ub)

(***************************************************************************)
(* State.                                                                  *)
(***************************************************************************)
VARIABLES
    ds_, shcp_, stcp_, sreg_count_,   \* the configuration statics
    shcp_reg_,                        \* the in-memory register state
    level,                            \* the level of every pin
    chain,                            \* the number of ICs wired to the pins
    sr, q,                            \* the chain's shift stage and outputs
    trace,                            \* the platform calls of the last call
    op,                               \* the last call: its name, arguments,
                                      \* result, and for a bit write the
                                      \* register value it found
    edits,                            \* bit writes since the last whole write
    run                               \* the call in progress: where it is,
                                      \* its loop variable i, the iterations
                                      \* made, the outcome of its undefined
                                      \* shifts

vars == <<ds_, shcp_, stcp_, sreg_count_, shcp_reg_,
          level, chain, sr, q, trace, op, edits, run>>

\* Bounds of the model: the bit writes (sreg_write_bit, sreg_invert_bit)
\* explored after each whole-register write.
MaxEdits == 2

\* The register values passed to sreg_init and sreg_write_bits:
\* 0b11 and 0xABCDEF01 (sign bit set).
Values == {3, -1412567295}

\* The bit indices passed to the bit functions for a chain of count ICs:
\* the one of the spec's scenario and the highest.
PinsOf(count) == {5, 8 * count - 1}

\* The outcomes of the undefined shifts a call with this loop start makes.
Outcomes(count) ==
    IF 4 * (2^count) > IntBits THEN ShiftOverflow ELSE {"wrap"}

Config == [ds |-> ds_, shcp |-> shcp_, stcp |-> stcp_, count |-> sreg_count_]

IO == [level |-> level, sr |-> sr, q |-> q, trace |-> <<>>]

Zeros(n) == [k \in 1..n |-> 0]

Call(name, pin, val, ret, old) ==
    [name |-> name, pin |-> pin, val |-> val, ret |-> ret, old |-> old]

NoCall == Call("none", 0, 0, 0, 0)

\* No call is in progress.
Returned == [pc |-> "idle", i |-> 0, n |-> 0, ub |-> "wrap"]

\* The statics are zero-initialised; the chain has some length and is
\* cleared; no pin is driven.
Init ==
    /\ ds_ = 0 /\ shcp_ = 0 /\ stcp_ = 0 /\ sreg_count_ = 0
    /\ shcp_reg_ = 0
    /\ level = [p \in PinIds |-> 0]
    /\ chain \in ChainLengths
    /\ sr = Zeros(8 * chain) /\ q = Zeros(8 * chain)
    /\ trace = <<>>
    /\ op = NoCall
    /\ edits = 0
    /\ run = Returned

Initialized == sreg_count_ # 0

SetIO(io) ==
    /\ level' = io.level
    /\ sr' = io.sr
    /\ q' = io.q
    /\ trace' = io.trace

(***************************************************************************)
(* The calls.                                                              *)
(***************************************************************************)
\* sreg_init.  Its sreg_count argument is the number of ICs chained
\* together, and its pins are those the chain is wired to.
SregInit ==
    \E pc \in PinConfigs, init_value \in Values, count \in {chain} :
    \E ub \in Outcomes(count) :
        LET c == [ds |-> pc[1], shcp |-> pc[2], stcp |-> pc[3],
                  count |-> count]
        IN  /\ ds_' = c.ds /\ shcp_' = c.shcp /\ stcp_' = c.stcp
            /\ sreg_count_' = c.count
            /\ shcp_reg_' = init_value
            /\ SetIO(sreg_init(IO, c, init_value, ub))
            /\ op' = Call("sreg_init", 0, init_value, 0, 0)
            /\ edits' = 0
            /\ UNCHANGED <<chain, run>>

TestBit ==
    \E pin \in PinsOf(sreg_count_) :
        /\ op' = Call("sreg_test_bit", pin, 0,
                      sreg_test_bit(shcp_reg_, pin, "wrap"), 0)
        /\ trace' = <<>>
        /\ UNCHANGED <<ds_, shcp_, stcp_, sreg_count_, shcp_reg_,
                       level, chain, sr, q, edits, run>>

TestAllBits ==
    /\ op' = Call("sreg_test_all_bits", 0, 0,
                  sreg_test_all_bits(shcp_reg_), 0)
    /\ trace' = <<>>
    /\ UNCHANGED <<ds_, shcp_, stcp_, sreg_count_, shcp_reg_,
                   level, chain, sr, q, edits, run>>

\* A faulty sreg_write_bit: the bit written through to the chain.
WriteBitThrough ==
    /\ edits < MaxEdits
    /\ \E pin \in PinsOf(sreg_count_), bit_value \in {0, 1, 2} :
        /\ shcp_reg_' = sreg_write_bit(shcp_reg_, pin, bit_value, "wrap")
        /\ op' = Call("sreg_write_bit", pin, bit_value, 0, shcp_reg_)
        /\ SetIO(sreg_write_bits(IO, Config, shcp_reg_', "wrap"))
    /\ edits' = edits + 1
    /\ UNCHANGED <<ds_, shcp_, stcp_, sreg_count_, chain, run>>

WriteBit ==
    /\ edits < MaxEdits
    /\ \E pin \in PinsOf(sreg_count_), bit_value \in {0, 1, 2} :
        /\ shcp_reg_' = sreg_write_bit(shcp_reg_, pin, bit_value, "wrap")
        /\ op' = Call("sreg_write_bit", pin, bit_value, 0, shcp_reg_)
    /\ trace' = <<>>
    /\ edits' = edits + 1
    /\ UNCHANGED <<ds_, shcp_, stcp_, sreg_count_, level, chain, sr, q,
                   run>>

InvertBit ==
    /\ edits < MaxEdits
    /\ \E pin \in PinsOf(sreg_count_) :
        /\ shcp_reg_' = sreg_invert_bit(shcp_reg_, pin, "wrap")
        /\ op' = Call("sreg_invert_bit", pin, 0, 0, shcp_reg_)
    /\ trace' = <<>>
    /\ edits' = edits + 1
    /\ UNCHANGED <<ds_, shcp_, stcp_, sreg_count_, level, chain, sr, q,
                   run>>

\* A faulty sreg_write_bits call: the chain length is set back to one IC.
WriteBitsOneIC ==
    \E bits \in Values :
        /\ shcp_reg_' = bits
        /\ sreg_count_' = 1
        /\ SetIO(sreg_write_bits(IO, [Config EXCEPT !.count = 1], bits,
                                 "wrap"))
        /\ op' = Call("sreg_write_bits", 0, bits, 0, 0)
        /\ edits' = 0
        /\ UNCHANGED <<ds_, shcp_, stcp_, chain, run>>

WriteBits ==
    \E bits \in Values, ub \in Outcomes(sreg_count_) :
        /\ shcp_reg_' = bits
        /\ SetIO(sreg_write_bits(IO, Config, bits, ub))
        /\ op' = Call("sreg_write_bits", 0, bits, 0, 0)
        /\ edits' = 0
        /\ UNCHANGED <<ds_, shcp_, stcp_, sreg_count_, chain, run>>

LatchLow ==
    /\ SetIO(sreg_latch_low(IO, Config))
    /\ op' = Call("sreg_latch_low", 0, 0, 0, 0)
    /\ UNCHANGED <<ds_, shcp_, stcp_, sreg_count_, shcp_reg_, chain, edits,
                   run>>

LatchHigh ==
    \E ub \in Outcomes(sreg_count_) :
        /\ SetIO(sreg_latch_high(IO, Config, shcp_reg_, ub))
        /\ op' = Call("sreg_latch_high", 0, 0, 0, 0)
        /\ UNCHANGED <<ds_, shcp_, stcp_, sreg_count_, shcp_reg_, chain,
                       edits, run>>

\* A caller initialises the chain before it uses it.
Next ==
    \/ SregInit
    \/ Initialized /\ TestBit
    \/ Initialized /\ TestAllBits
    \/ Initialized /\ WriteBit
    \/ Initialized /\ InvertBit
    \/ Initialized /\ WriteBits
    \/ Initialized /\ LatchLow
    \/ Initialized /\ LatchHigh

Spec == Init /\ [][Next]_vars

(***************************************************************************)
(* The calls when sreg_init may be called again with other arguments:      *)
(* <<ds, shcp, stcp, sreg_count>> is the wired configuration or another    *)
(* in which all four differ.                                               *)
(***************************************************************************)
ReinitConfigs == {<<2, 3, 4, 1>>, <<5, 6, 7, 2>>}

\* One IC is wired; no pin of either triple is driven.
InitReinit ==
    /\ ds_ = 0 /\ shcp_ = 0 /\ stcp_ = 0 /\ sreg_count_ = 0
    /\ shcp_reg_ = 0
    /\ level = [p \in UNION {{c[1], c[2], c[3]} : c \in ReinitConfigs} |-> 0]
    /\ chain = 1
    /\ sr = Zeros(8 * chain) /\ q = Zeros(8 * chain)
    /\ trace = <<>>
    /\ op = NoCall
    /\ edits = 0
    /\ run = Returned

\* sreg_init with either configuration.
SregInitAny ==
    \E rc \in ReinitConfigs, init_value \in Values :
    \E ub \in Outcomes(rc[4]) :
        LET c == [ds |-> rc[1], shcp |-> rc[2], stcp |-> rc[3],
                  count |-> rc[4]]
        IN  /\ ds_' = c.ds /\ shcp_' = c.shcp /\ stcp_' = c.stcp
            /\ sreg_count_' = c.count
            /\ shcp_reg_' = init_value
            /\ SetIO(sreg_init(IO, c, init_value, ub))
            /\ op' = Call("sreg_init", 0, init_value, 0, 0)
            /\ edits' = 0
            /\ UNCHANGED <<chain, run>>

NextReinit ==
    \/ SregInitAny
    \/ Initialized /\ TestBit
    \/ Initialized /\ TestAllBits
    \/ Initialized /\ WriteBit
    \/ Initialized /\ InvertBit
    \/ Initialized /\ WriteBits
    \/ Initialized /\ LatchLow
    \/ Initialized /\ LatchHigh

SpecReinit == InitReinit /\ [][NextReinit]_vars

(***************************************************************************)
(* The pushes one loop iteration at a time.  A call that pushes runs up    *)
(* to its loop, the loop runs an iteration at a step, and the call         *)
(* returns after the write that follows the loop.                          *)
(***************************************************************************)
\* The chain and the platform calls of the call in progress.
IOSoFar == [level |-> level, sr |-> sr, q |-> q, trace |-> trace]

\* int i = (4 << sreg_count_) - 1, no iteration made yet.
Looping(count, ub) ==
    [pc |-> "loop", i |-> loop_start(count, ub), n |-> 0, ub |-> ub]

\* sreg_init up to the loop of sreg_latch_high.
InitStart ==
    /\ run.pc = "idle"
    /\ \E pc \in PinConfigs, init_value \in Values, count \in {chain} :
       \E ub \in Outcomes(count) :
           LET c == [ds |-> pc[1], shcp |-> pc[2], stcp |-> pc[3],
                     count |-> count]
           IN  /\ ds_' = c.ds /\ shcp_' = c.shcp /\ stcp_' = c.stcp
               /\ sreg_count_' = c.count
               /\ shcp_reg_' = init_value
               /\ SetIO(sreg_latch_low(
                            pinMode(pinMode(pinMode(IO, c.ds), c.shcp),
                                    c.stcp), c))
               /\ op' = Call("sreg_init", 0, init_value, 0, 0)
               /\ run' = Looping(count, ub)
    /\ edits' = 0
    /\ UNCHANGED chain

\* sreg_write_bits up to the loop of sreg_latch_high.
WriteBitsStart ==
    /\ run.pc = "idle"
    /\ \E bits \in Values, ub \in Outcomes(sreg_count_) :
           /\ shcp_reg_' = bits
           /\ SetIO(sreg_latch_low(IO, Config))
           /\ op' = Call("sreg_write_bits", 0, bits, 0, 0)
           /\ run' = Looping(sreg_count_, ub)
    /\ edits' = 0
    /\ UNCHANGED <<ds_, shcp_, stcp_, sreg_count_, chain>>

\* sreg_latch_high up to its loop.
LatchHighStart ==
    /\ run.pc = "idle"
    /\ \E ub \in Outcomes(sreg_count_) : run' = Looping(sreg_count_, ub)
    /\ SetIO(IO)
    /\ op' = Call("sreg_latch_high", 0, 0, 0, 0)
    /\ UNCHANGED <<ds_, shcp_, stcp_, sreg_count_, shcp_reg_, chain, edits>>

\* i >= 0: the loop body, then i--.
LoopStep ==
    /\ run.pc = "loop" /\ run.i >= 0
    /\ \E io \in {shift_bit(IOSoFar, Config, shcp_reg_, run.i, run.ub)} :
           SetIO(io)
    /\ run' = [run EXCEPT !.i = @ - 1, !.n = @ + 1]
    /\ UNCHANGED <<ds_, shcp_, stcp_, sreg_count_, shcp_reg_, chain, op,
                   edits>>

\* A faulty loop end: i > 0 as the loop condition.
LoopExitEarly ==
    /\ run.pc = "loop" /\ run.i <= 0
    /\ \E io \in {digitalWrite(IOSoFar, stcp_, 1)} : SetIO(io)
    /\ run' = [run EXCEPT !.pc = "idle"]
    /\ UNCHANGED <<ds_, shcp_, stcp_, sreg_count_, shcp_reg_, chain, op,
                   edits>>

\* i < 0: the loop is left, the latch clock is written high, the call
\* returns.
LoopExit ==
    /\ run.pc = "loop" /\ run.i < 0
    /\ \E io \in {digitalWrite(IOSoFar, stcp_, 1)} : SetIO(io)
    /\ run' = [run EXCEPT !.pc = "idle"]
    /\ UNCHANGED <<ds_, shcp_, stcp_, sreg_count_, shcp_reg_, chain, op,
                   edits>>

NextLoop ==
    \/ InitStart
    \/ Initialized /\ WriteBitsStart
    \/ Initialized /\ LatchHighStart
    \/ LoopStep
    \/ LoopExit

\* The code is straight-line and single-threaded: a call that has started
\* goes on to its next statement.
SpecLoop ==
    Init /\ [][NextLoop]_vars /\ WF_vars(LoopStep) /\ WF_vars(LoopExit)

(***************************************************************************)
(* Properties.                                                             *)
(***************************************************************************)

\* Bit i of the integer x in two's complement, for any i >= 0.
BitOf(x, i) ==
    IF i >= IntBits - 1 THEN (IF x < 0 THEN 1 ELSE 0) ELSE (x \div (2^i)) % 2

\* The low n bits of x as the levels of chain positions 0..n-1.
LowBits(x, n) == [k \in 1..n |-> BitOf(x, k - 1)]

DigitalWrites == {"sreg_init", "sreg_write_bits",
                  "sreg_latch_low", "sreg_latch_high"}

BitWrites == {"sreg_write_bit", "sreg_invert_bit"}

\* C1: after sreg_write_bit(i, v), sreg_test_bit(i) is 1 if v is nonzero and
\* 0 otherwise, sreg_test_bit(j) is what it was for every other j, and the
\* register value differs from the one before in at most bit i.
C1_WriteBitSetsOneBit ==
    op.name = "sreg_write_bit" =>
        /\ sreg_test_bit(shcp_reg_, op.pin, "wrap")
               = (IF op.val # 0 THEN 1 ELSE 0)
        /\ \A j \in BitIdx \ {op.pin} :
               /\ sreg_test_bit(shcp_reg_, j, "wrap")
                      = sreg_test_bit(op.old, j, "wrap")
               /\ BitOf(sreg_test_all_bits(shcp_reg_), j) = BitOf(op.old, j)

\* The scenario of C1: sreg_write_bit(5, v) with v nonzero on a register
\* value whose bit 5 was clear.
C1_Witness ==
    /\ op.name = "sreg_write_bit" /\ op.pin = 5 /\ op.val = 2
    /\ op.old = 3 /\ shcp_reg_ = 35

\* C2: sreg_write_bits(x) leaves x in the register, its push included, and
\* sreg_test_all_bits() right after it returns x.
C2_WriteBitsThenTestAll ==
    [][/\ op'.name = "sreg_write_bits" => shcp_reg_' = op'.val
       /\ (op.name = "sreg_write_bits" /\ op'.name = "sreg_test_all_bits")
              => op'.ret = op.val]_vars

\* sreg_test_all_bits has returned 0xABCDEF01 with no bit write since that
\* value was written whole.
C2_Witness ==
    /\ op.name = "sreg_test_all_bits" /\ op.ret = -1412567295
    /\ edits = 0 /\ sreg_count_ = 2

\* C3: sreg_invert_bit(i) twice in succession restores the register value
\* found by the first call, and with it sreg_test_bit(i).
C3_InvertTwice ==
    [][(op.name = "sreg_invert_bit" /\ op'.name = "sreg_invert_bit"
            /\ op'.pin = op.pin)
           => /\ shcp_reg_' = op.old
              /\ sreg_test_bit(shcp_reg_', op.pin, "wrap")
                     = sreg_test_bit(op.old, op.pin, "wrap")]_vars

\* Bit 5 of the value 3 was set and an inversion has cleared it again.
C3_Witness ==
    /\ op.name = "sreg_invert_bit" /\ op.pin = 5 /\ edits = 2
    /\ op.old = 35 /\ shcp_reg_ = 3

\* C6: sreg_write_bit and sreg_invert_bit issue no platform call and leave
\* the pin levels and the chain as they were; only sreg_init,
\* sreg_write_bits, sreg_latch_low and sreg_latch_high issue pin writes.
C6_BitWritesMemoryOnly ==
    [][/\ op'.name \in BitWrites
           => trace' = <<>> /\ level' = level /\ sr' = sr /\ q' = q
       /\ trace' # <<>> => op'.name \in DigitalWrites]_vars

\* A bit inversion has changed the register while the latch and clock pins
\* stay high from the last push.
C6_Witness ==
    /\ op.name = "sreg_invert_bit" /\ shcp_reg_ # op.old
    /\ trace = <<>> /\ level[stcp_] = 1 /\ level[shcp_] = 1

\* The chain's outputs show the low 8 * L bits of the register.
Synced == q = LowBits(shcp_reg_, 8 * sreg_count_)

\* C4: after sreg_write_bits(x) the output at chain position k is bit k of
\* x, for every k in [0, 8 * L) and every chain length L.
C4_OutputsAfterWriteBits ==
    op.name = "sreg_write_bits" =>
        /\ Len(q) = 8 * sreg_count_
        /\ \A k \in 0..(8 * sreg_count_ - 1) : q[k + 1] = BitOf(op.val, k)

\* Three ICs, for which 32 bits are shifted into 24 positions.
C4_Witness ==
    /\ op.name = "sreg_write_bits" /\ op.val = -1412567295
    /\ sreg_count_ = 3 /\ Len(trace) = 3 + 4 * 32 + 1
    /\ q = LowBits(-1412567295, 24)

\* C5 as stated: between calls the register always equals the value last
\* pushed to the chain.
C5_MirrorAlwaysPushed == Initialized => Synced

\* C5 amended: with no sreg_write_bit or sreg_invert_bit since the last
\* sreg_write_bits or sreg_init, the chain's shift stage and outputs hold
\* the low 8 * L bits of the register.
C5_MirrorPushedUntilBitWrite ==
    (Initialized /\ edits = 0) =>
        /\ Synced
        /\ sr = LowBits(shcp_reg_, 8 * sreg_count_)

\* A second whole write has been pushed and the latch taken low again.
C5_Witness ==
    /\ op.name = "sreg_latch_low" /\ edits = 0 /\ sreg_count_ = 4
    /\ shcp_reg_ = -1412567295 /\ Synced

PinWrite(pin, v) == <<"digitalWrite", pin, v>>

\* The shifted width the spec gives for L ICs.
Width(L) == 4 * (2^L)

\* C7: sreg_latch_high issues Width(L) data-bit writes, one before each
\* rising shift clock edge, then latch clock high as its last write, and no
\* other write to the latch clock.
C7_LatchHighCounts ==
    op.name = "sreg_latch_high" =>
        LET n == Len(trace)
            edges == {k \in 1..n : trace[k] = PinWrite(shcp_, 1)}
            bits  == {k \in 1..(n - 1) :
                          /\ trace[k][2] = ds_
                          /\ trace[k + 1] = PinWrite(shcp_, 1)}
        IN  /\ Cardinality(edges) = Width(sreg_count_)
            /\ Cardinality(bits) = Width(sreg_count_)
            /\ n = 4 * Width(sreg_count_) + 1
            /\ trace[n] = PinWrite(stcp_, 1)
            /\ {k \in 1..n : trace[k][2] = stcp_} = {n}

\* Three ICs: 32 data-bit writes, not 24.
C7_Witness ==
    /\ op.name = "sreg_latch_high" /\ sreg_count_ = 3
    /\ Len(trace) = 4 * 32 + 1 /\ shcp_reg_ = -1412567295

\* C8: for i from Width(L) - 1 down to 0 sreg_latch_high writes shift clock
\* low, data = bit i of the register, shift clock high, data low.
C8_ShiftCycle ==
    op.name = "sreg_latch_high" =>
        \A k \in 1..Width(sreg_count_) :
            LET i == Width(sreg_count_) - k
                b == 4 * (k - 1)
            IN  /\ trace[b + 1] = PinWrite(shcp_, 0)
                /\ trace[b + 2] = PinWrite(ds_, BitOf(shcp_reg_, i))
                /\ trace[b + 3] = PinWrite(shcp_, 1)
                /\ trace[b + 4] = PinWrite(ds_, 0)

\* C9 as stated: whenever sreg_latch_high returns, the outputs equal the
\* low 8 * L bits of the register.
C9_LatchHighCommits == op.name = "sreg_latch_high" => Synced

\* C9 amended: when the latch clock is low as sreg_latch_high is called,
\* the outputs equal the low 8 * L bits of the register once it returns.
C9_LatchHighCommitsFromLow ==
    [][(op'.name = "sreg_latch_high" /\ level[stcp_] = 0)
           => q' = LowBits(shcp_reg_', 8 * sreg_count_')]_vars

\* A bit written in memory only has reached the outputs by sreg_latch_low
\* and sreg_latch_high.
C9_Witness ==
    /\ op.name = "sreg_latch_high" /\ edits = 1 /\ sreg_count_ = 1
    /\ shcp_reg_ = 35 /\ q = LowBits(35, 8)

\* t is one full push of value by a driver configured as ds, shcp, stcp, L:
\* the writes of sreg_latch_low, then for each i from Width(L) - 1 down to 0
\* the four writes of the shift cycle, with bit i of value as data where the
\* int has a bit i, then latch clock high.
IsPush(t, value, ds, shcp, stcp, L) ==
    /\ Len(t) = 3 + 4 * Width(L) + 1
    /\ t[1] = PinWrite(stcp, 0)
    /\ t[2] = PinWrite(ds, 0)
    /\ t[3] = PinWrite(shcp, 0)
    /\ \A k \in 1..Width(L) :
           LET i == Width(L) - k
               b == 3 + 4 * (k - 1)
           IN  /\ t[b + 1] = PinWrite(shcp, 0)
               /\ t[b + 2][2] = ds
               /\ i \in BitIdx => t[b + 2] = PinWrite(ds, BitOf(value, i))
               /\ t[b + 3] = PinWrite(shcp, 1)
               /\ t[b + 4] = PinWrite(ds, 0)
    /\ t[Len(t)] = PinWrite(stcp, 1)

\* C10: sreg_write_bits(value) stores value and issues one full push of it;
\* of two successive calls each issues its own complete push, and the
\* register holds the value of the second.
C10_WriteBitsPushes ==
    [][op'.name = "sreg_write_bits" =>
           /\ shcp_reg_' = op'.val
           /\ IsPush(trace', op'.val, ds_', shcp_', stcp_', sreg_count_')
           /\ op.name = "sreg_write_bits" =>
                  IsPush(trace, op.val, ds_, shcp_, stcp_, sreg_count_)]_vars

\* sreg_write_bits(3) on two ICs has issued its 68 writes.
C10_Witness ==
    /\ op.name = "sreg_write_bits" /\ op.val = 3 /\ sreg_count_ = 2
    /\ IsPush(trace, 3, ds_, shcp_, stcp_, 2)
    /\ shcp_reg_ = 3

PinOutput(pin) == <<"pinMode", pin, "OUTPUT">>

\* C11: sreg_init makes the three pins outputs before its first pin write,
\* stores the configuration, pushes init_value once with the stored chain
\* length, and leaves init_value in the register.
C11_InitConfiguresThenPushes ==
    op.name = "sreg_init" =>
        /\ <<ds_, shcp_, stcp_>> \in PinConfigs /\ sreg_count_ = chain
        /\ Len(trace) > 3
        /\ {trace[1], trace[2], trace[3]}
               = {PinOutput(ds_), PinOutput(shcp_), PinOutput(stcp_)}
        /\ IsPush(SubSeq(trace, 4, Len(trace)), op.val,
                  ds_, shcp_, stcp_, sreg_count_)
        /\ sreg_test_all_bits(shcp_reg_) = op.val

\* The scenario of C11: sreg_init(2, 3, 4, 0b00000011, 1).
C11_Witness ==
    /\ op.name = "sreg_init" /\ op.val = 3 /\ sreg_count_ = 1
    /\ <<ds_, shcp_, stcp_>> = <<2, 3, 4>>
    /\ sreg_test_bit(shcp_reg_, 0, "wrap") = 1
    /\ sreg_test_bit(shcp_reg_, 1, "wrap") = 1
    /\ sreg_test_bit(shcp_reg_, 2, "wrap") = 0

\* The positions in t of the data writes that a rising shift clock edge
\* follows.
DataBits(t, ds, shcp) ==
    {k \in 1..(Len(t) - 1) : t[k][1] = "digitalWrite" /\ t[k][2] = ds
                                 /\ t[k + 1] = PinWrite(shcp, 1)}

Min(S) == CHOOSE x \in S : \A y \in S : x <= y

Max(S) == CHOOSE x \in S : \A y \in S : x >= y

Pushes == {"sreg_init", "sreg_write_bits", "sreg_latch_high"}

\* C12 as stated: in every push the data at the first rising shift clock
\* edge is bit 0 of the register.
C12_BitZeroFirst ==
    op.name \in Pushes =>
        trace[Min(DataBits(trace, ds_, shcp_))]
            = PinWrite(ds_, BitOf(shcp_reg_, 0))

\* C12 amended: in every push the data at the last rising shift clock edge
\* is bit 0 of the register; the data at the first is bit W - 1, where the
\* int has such a bit.
C12_BitZeroLast ==
    op.name \in Pushes =>
        /\ DataBits(trace, ds_, shcp_) # {}
        /\ trace[Max(DataBits(trace, ds_, shcp_))]
               = PinWrite(ds_, BitOf(shcp_reg_, 0))
        /\ Width(sreg_count_) <= IntBits =>
               trace[Min(DataBits(trace, ds_, shcp_))]
                   = PinWrite(ds_, BitOf(shcp_reg_, Width(sreg_count_) - 1))

\* One IC, register 0b00000011: the first edge carries bit 7 (0), the last
\* bit 0 (1).
C12_Witness ==
    /\ op.name = "sreg_latch_high" /\ sreg_count_ = 1 /\ shcp_reg_ = 3
    /\ trace[Min(DataBits(trace, ds_, shcp_))] = PinWrite(ds_, 0)
    /\ trace[Max(DataBits(trace, ds_, shcp_))] = PinWrite(ds_, 1)

\* C13: sreg_latch_low writes latch clock, data, shift clock low in that
\* order and nothing else; the three pins are low when it returns, the chain
\* has shifted and latched nothing, the register is unchanged.
C13_LatchLow ==
    [][op'.name = "sreg_latch_low" =>
           /\ trace' = <<PinWrite(stcp_, 0), PinWrite(ds_, 0),
                         PinWrite(shcp_, 0)>>
           /\ level'[ds_] = 0 /\ level'[shcp_] = 0 /\ level'[stcp_] = 0
           /\ sr' = sr /\ q' = q
           /\ shcp_reg_' = shcp_reg_]_vars

\* sreg_latch_low has run after a push and a bit write: all pins low, the
\* outputs still show the value pushed.
C13_Witness ==
    /\ op.name = "sreg_latch_low" /\ edits = 1
    /\ level[ds_] = 0 /\ level[shcp_] = 0 /\ level[stcp_] = 0
    /\ shcp_reg_ = 35 /\ q = LowBits(3, 8 * sreg_count_)

Tests == {"sreg_test_bit", "sreg_test_all_bits"}

\* C14: sreg_test_bit(i) returns 0 or 1, equal to bit i of the register, for
\* every i in [0, 8 * L); sreg_test_bit and sreg_test_all_bits change neither
\* the register nor a pin level.
C14_TestBit ==
    [][op'.name \in Tests =>
           /\ op'.name = "sreg_test_bit" =>
                  /\ op'.ret \in {0, 1}
                  /\ op'.ret = BitOf(shcp_reg_, op'.pin)
           /\ \A i \in 0..(8 * sreg_count_ - 1) :
                  sreg_test_bit(shcp_reg_, i, "wrap") = BitOf(shcp_reg_, i)
           /\ shcp_reg_' = shcp_reg_ /\ level' = level
           /\ sr' = sr /\ q' = q /\ trace' = <<>>]_vars

\* The sign bit of a negative register value read as 1.
C14_Witness ==
    /\ op.name = "sreg_test_bit" /\ op.pin = IntBits - 1 /\ op.ret = 1
    /\ shcp_reg_ < 0 /\ sreg_count_ = 4

\* C17: sreg_invert_bit(i) leaves in bit i the negation of what it found
\* there and every other bit as it was.
C17_InvertBit ==
    op.name = "sreg_invert_bit" =>
        /\ sreg_test_bit(shcp_reg_, op.pin, "wrap")
               = 1 - sreg_test_bit(op.old, op.pin, "wrap")
        /\ BitOf(shcp_reg_, op.pin) = 1 - BitOf(op.old, op.pin)
        /\ \A j \in BitIdx \ {op.pin} :
               /\ sreg_test_bit(shcp_reg_, j, "wrap")
                      = sreg_test_bit(op.old, j, "wrap")
               /\ BitOf(shcp_reg_, j) = BitOf(op.old, j)

\* The sign bit of 3 inverted on four ICs.
C17_Witness ==
    /\ op.name = "sreg_invert_bit" /\ op.pin = IntBits - 1
    /\ op.old = 3 /\ shcp_reg_ = MinInt + 3

\* The positions in t of the writes of level v to pin.
WritesOf(t, pin, v) == {k \in 1..Len(t) : t[k] = PinWrite(pin, v)}

\* C18: in the push of sreg_write_bits and sreg_init the latch clock is
\* written low before the first rising shift clock edge and high once,
\* after the last one, and not in between.
C18_LatchLowWhileShifting ==
    op.name \in {"sreg_write_bits", "sreg_init"} =>
        LET edges == WritesOf(trace, shcp_, 1)
            lows  == WritesOf(trace, stcp_, 0)
            highs == WritesOf(trace, stcp_, 1)
        IN  /\ Cardinality(edges) = Width(sreg_count_)
            /\ Cardinality(lows) = 1 /\ Cardinality(highs) = 1
            /\ Max(lows) < Min(edges)
            /\ Max(edges) < Min(highs)
            /\ Synced

\* sreg_write_bits on three ICs: 32 edges between latch low and latch high.
C18_Witness ==
    /\ op.name = "sreg_write_bits" /\ sreg_count_ = 3 /\ op.val = 3
    /\ Cardinality(WritesOf(trace, shcp_, 1)) = 32
    /\ trace[1] = PinWrite(stcp_, 0)
    /\ trace[Len(trace)] = PinWrite(stcp_, 1)

\* C19: sreg_write_bit(i, v) again changes nothing, and it commutes with
\* sreg_write_bit(j, w) for every other index j: checked from the register
\* value each sreg_write_bit call found.
C19_WriteBitIdempotentCommutes ==
    op.name = "sreg_write_bit" =>
        /\ sreg_write_bit(shcp_reg_, op.pin, op.val, "wrap") = shcp_reg_
        /\ \A j \in (0..(8 * sreg_count_ - 1)) \ {op.pin} :
           \A w \in {0, 1, 2} :
               sreg_write_bit(sreg_write_bit(op.old, j, w, "wrap"),
                              op.pin, op.val, "wrap")
                   = sreg_write_bit(shcp_reg_, j, w, "wrap")

\* Two writes to distinct bits of 0xABCDEF01 on two ICs.
C19_Witness ==
    /\ op.name = "sreg_write_bit" /\ op.pin = 15 /\ op.val = 0
    /\ edits = 2 /\ sreg_count_ = 2
    /\ op.old = -1412567295 + 32
    /\ shcp_reg_ = -1412567295 + 32 - 32768

ConfigStatics == <<ds_, shcp_, stcp_, sreg_count_>>

\* C16 as stated: once sreg_init has run, no call changes the pins or the
\* chain length stored.
C16_ConfigImmutable ==
    [][Initialized => ConfigStatics' = ConfigStatics]_vars

\* C16 amended: no call other than sreg_init changes the pins or the chain
\* length stored.
C16_ConfigChangedByInitOnly ==
    [][op'.name # "sreg_init" => ConfigStatics' = ConfigStatics]_vars

\* Bit writes made under the second pin triple and two ICs.
C16_Witness ==
    /\ op.name = "sreg_invert_bit" /\ edits = 2
    /\ ConfigStatics = <<5, 6, 7, 2>>

\* C15: a push that has reached its loop goes on to write the latch clock
\* high and return, after exactly 4 << sreg_count_ iterations.
C15_LoopTerminates ==
    (run.pc = "loop") ~>
        (/\ run.pc = "idle"
         /\ run.n = Width(sreg_count_)
         /\ run.i = -1
         /\ trace[Len(trace)] = PinWrite(stcp_, 1))

\* sreg_write_bits on four ICs has returned after 64 iterations.
C15_Witness ==
    /\ op.name = "sreg_write_bits" /\ sreg_count_ = 4
    /\ run.pc = "idle" /\ run.n = 64
    /\ trace[Len(trace)] = PinWrite(stcp_, 1)

====
